---- MODULE Spec2Model ----
(***************************************************************************)
(* Model of packages/synthetics-sdk-broken-links/src/link_utils.ts: the    *)
(* status evaluator, the link selector, the result aggregator, the         *)
(* fragment-navigation test and the page open / pool teardown helpers.     *)
(* Each helper is an independent state machine with its own specification; *)
(* the variables of the other helpers stay at their idle values.           *)
(***************************************************************************)
EXTENDS Integers, Sequences, FiniteSets

VARIABLES
  expected,       \* checkStatusPassing: the ResponseStatusCode argument
  actual,         \* checkStatusPassing: the actual status code
  status_ret,     \* checkStatusPassing: <<>> before the return, <<bool>> after
  links,          \* shuffleAndTruncate: the links argument
  link_limit,     \* shuffleAndTruncate: the link_limit argument
  link_order,     \* shuffleAndTruncate: the link_order argument
  select_ret,     \* shuffleAndTruncate: <<>> before the return, <<array>> after
  followed_links, \* createSyntheticResult: the elements of the followed_links
                  \* argument the for..of loop has been handed so far
  broken_links_result, \* parseFollowedLinks: the accumulator
  synthetic_ret,  \* createSyntheticResult: <<>> before the return, <<result>> after
  current_url,    \* shouldGoToBlankPage: the current_url argument
  target_url,     \* shouldGoToBlankPage: the target_url argument
  blank_ret,      \* shouldGoToBlankPage: <<>> before the return, <<bool>> after
  pagePool,       \* closePagePool: the number of pages of the pool, 1..pagePool
  page_close,     \* closePagePool: per page, the state of its page.close():
                  \* "open" (not called), "closing", "closed" or rejected
  pool_pc,        \* closePagePool: "start", "map", "await" or "done"
  map_i,          \* closePagePool: the pages pagePool.map has visited
  all_promise,    \* closePagePool: the state of the Promise.all promise
  pool_promise,   \* closePagePool: the state of the promise it returns
  pool_stderr,    \* closePagePool: the messages written to process.stderr
  open_pc,        \* openNewPage: per call, "start", "await" or "done"
  new_page,       \* openNewPage: per call, the state of browser.newPage()
  cache,          \* openNewPage: per call, the state of the page's cache
  open_promise,   \* openNewPage: per call, the state of the promise it returns
  open_stderr     \* openNewPage: per call, the messages written to process.stderr

vars == <<expected, actual, status_ret, links, link_limit, link_order, select_ret,
          followed_links, broken_links_result, synthetic_ret,
          current_url, target_url, blank_ret,
          pagePool, page_close, pool_pc, map_i, all_promise, pool_promise,
          pool_stderr, open_pc, new_page, cache, open_promise, open_stderr>>

(***************************************************************************)
(* JavaScript values: a number, or undefined (an absent optional field).   *)
(***************************************************************************)
Undefined == [type |-> "undefined"]
Num(n) == [type |-> "number", value |-> n]
TypeOf(v) == v.type

Min(a, b) == IF a <= b THEN a ELSE b
Max(a, b) == IF a >= b THEN a ELSE b

StatusVars == <<expected, actual, status_ret>>
SelectVars == <<links, link_limit, link_order, select_ret>>
AggregateVars == <<followed_links, broken_links_result, synthetic_ret>>
BlankVars == <<current_url, target_url, blank_ret>>
PoolVars ==
  <<pagePool, page_close, pool_pc, map_i, all_promise, pool_promise, pool_stderr>>
OpenVars == <<open_pc, new_page, cache, open_promise, open_stderr>>

(***************************************************************************)
(* checkStatusPassing                                                      *)
(***************************************************************************)
\* How far the actual status codes tried reach below 0 and above 599.
StatusSlack == 12

ActualValues == (0 - StatusSlack) .. (599 + StatusSlack)

\* The members of ResponseStatusCode_StatusClass the switch names, the members
\* it does not name, and an unset field.
NamedClasses ==
  {"STATUS_CLASS_1XX", "STATUS_CLASS_2XX", "STATUS_CLASS_3XX",
   "STATUS_CLASS_4XX", "STATUS_CLASS_5XX"}
StatusClasses ==
  NamedClasses \cup {"STATUS_CLASS_UNSPECIFIED", "UNRECOGNIZED", "undefined"}

\* The exact codes tried for expected.status_value, and the unset field.
StatusValues ==
  {Undefined} \cup {Num(n) : n \in {0 - 1, 0, 100, 200, 299, 404, 599, 600}}

Expectations == [status_value : StatusValues, status_class : StatusClasses]

\* checkStatusPassing with the 2XX band ending at 298.
checkStatusPassingShort2xx(exp, act) ==
  IF TypeOf(exp.status_value) = "number"
  THEN exp.status_value.value = act
  ELSE CASE exp.status_class = "STATUS_CLASS_1XX" -> act >= 100 /\ act <= 199
         [] exp.status_class = "STATUS_CLASS_2XX" -> act >= 200 /\ act < 299
         [] exp.status_class = "STATUS_CLASS_3XX" -> act >= 300 /\ act <= 399
         [] exp.status_class = "STATUS_CLASS_4XX" -> act >= 400 /\ act <= 499
         [] exp.status_class = "STATUS_CLASS_5XX" -> act >= 500 /\ act <= 599
         [] OTHER -> FALSE

checkStatusPassing(exp, act) ==
  IF TypeOf(exp.status_value) = "number"
  THEN exp.status_value.value = act
  ELSE CASE exp.status_class = "STATUS_CLASS_1XX" -> act >= 100 /\ act <= 199
         [] exp.status_class = "STATUS_CLASS_2XX" -> act >= 200 /\ act <= 299
         [] exp.status_class = "STATUS_CLASS_3XX" -> act >= 300 /\ act <= 399
         [] exp.status_class = "STATUS_CLASS_4XX" -> act >= 400 /\ act <= 499
         [] exp.status_class = "STATUS_CLASS_5XX" -> act >= 500 /\ act <= 599
         [] OTHER -> FALSE

(***************************************************************************)
(* shuffleAndTruncate                                                      *)
(***************************************************************************)
\* The longest links array tried.
MaxLinks == 3

LinkPool == {"l1", "l2", "l3"}
LinkArrays == UNION {[1..n -> LinkPool] : n \in 0..MaxLinks}
LimitValues == (0 - MaxLinks - 1) .. (MaxLinks + 2)
LinkOrders == {"SEQUENTIAL", "RANDOM"}

\* Array.prototype.slice(start, end): a negative index counts from the end,
\* both indices are clamped to [0, length].
Slice(s, start, end) ==
  LET len == Len(s)
      k == IF start < 0 THEN Max(len + start, 0) ELSE Min(start, len)
      final == IF end < 0 THEN Max(len + end, 0) ELSE Min(end, len)
  IN SubSeq(s, k + 1, final)

\* The arrays a sort with a random comparator can leave: the permutations.
Shuffles(s) ==
  LET n == Len(s)
      Bijections == {p \in [1..n -> 1..n] : \A i, j \in 1..n : p[i] = p[j] => i = j}
  IN {[i \in 1..n |-> s[p[i]]] : p \in Bijections}

\* linksToFollow: a shuffled copy under RANDOM, a plain copy otherwise.
linksToFollow(ls, order) ==
  IF order = "RANDOM" THEN Shuffles(ls) ELSE {ls}

\* shuffleAndTruncate cutting at link_limit instead of link_limit - 1.
shuffleAndTruncateAtLimit(ls, limit, order) ==
  {Slice(l, 0, limit) : l \in linksToFollow(ls, order)}

\* The arrays shuffleAndTruncate can return.
shuffleAndTruncate(ls, limit, order) ==
  {Slice(l, 0, limit - 1) : l \in linksToFollow(ls, order)}

(***************************************************************************)
(* parseFollowedLinks and createSyntheticResult                            *)
(***************************************************************************)
\* The longest followed_links array tried.
MaxResults == 3

\* The status codes tried: absent, negative, 1xx, the four counted classes
\* (two of them at the upper edge of the band) and a code above 599.
StatusCodes ==
  {Undefined} \cup {Num(n) : n \in {0 - 1, 150, 200, 399, 404, 599, 600}}

\* BrokenLinksResultV1_SyntheticLinkResult, the fields the aggregation reads.
LinkResults ==
  [is_origin : BOOLEAN, link_passed : BOOLEAN, status_code : StatusCodes]

ClockValues == {"t1", "t2"}

\* The accumulator parseFollowedLinks starts from; the empty placeholder
\* objects are <<>> (origin) and "{}" (options).
EmptyResult ==
  [link_count |-> 0,
   passing_link_count |-> 0,
   failing_link_count |-> 0,
   unreachable_count |-> 0,
   status_2xx_count |-> 0,
   status_3xx_count |-> 0,
   status_4xx_count |-> 0,
   status_5xx_count |-> 0,
   options |-> "{}",
   origin_link_result |-> <<>>,
   followed_link_results |-> <<>>]

\* routeLink appending every link, the origin included.
routeLinkPushAll(r, link) ==
  IF link.is_origin
  THEN [r EXCEPT !.origin_link_result = <<link>>,
                 !.followed_link_results = Append(@, link)]
  ELSE [r EXCEPT !.followed_link_results = Append(@, link)]

\* The ternary on link.is_origin.
routeLink(r, link) ==
  IF link.is_origin
  THEN [r EXCEPT !.origin_link_result = <<link>>]
  ELSE [r EXCEPT !.followed_link_results = Append(@, link)]

\* countLink counting the followed links only.
countLinkFollowedOnly(r, link) ==
  IF link.is_origin THEN r ELSE [r EXCEPT !.link_count = @ + 1]

countLink(r, link) == [r EXCEPT !.link_count = @ + 1]

\* countPassed counting a failure only for a link that has a status code.
countPassedNeedsStatus(r, link) ==
  IF link.link_passed
  THEN [r EXCEPT !.passing_link_count = @ + 1]
  ELSE IF TypeOf(link.status_code) = "number"
       THEN [r EXCEPT !.failing_link_count = @ + 1]
       ELSE r

countPassed(r, link) ==
  IF link.link_passed
  THEN [r EXCEPT !.passing_link_count = @ + 1]
  ELSE [r EXCEPT !.failing_link_count = @ + 1]

\* Math.floor(status_code / 100) as the case the switch takes; undefined / 100
\* is NaN, which matches no case.
StatusBucket(code) ==
  IF TypeOf(code) = "number" THEN <<code.value \div 100>> ELSE <<>>

\* countStatus switching on the quotient rounded to the nearest integer
\* instead of down.
countStatusRounded(r, link) ==
  LET code == link.status_code
      b == IF TypeOf(code) = "number" THEN <<(code.value + 50) \div 100>> ELSE <<>>
  IN
  CASE b = <<2>> -> [r EXCEPT !.status_2xx_count = @ + 1]
    [] b = <<3>> -> [r EXCEPT !.status_3xx_count = @ + 1]
    [] b = <<4>> -> [r EXCEPT !.status_4xx_count = @ + 1]
    [] b = <<5>> -> [r EXCEPT !.status_5xx_count = @ + 1]
    [] OTHER -> [r EXCEPT !.unreachable_count = @ + 1]

countStatus(r, link) ==
  LET b == StatusBucket(link.status_code) IN
  CASE b = <<2>> -> [r EXCEPT !.status_2xx_count = @ + 1]
    [] b = <<3>> -> [r EXCEPT !.status_3xx_count = @ + 1]
    [] b = <<4>> -> [r EXCEPT !.status_4xx_count = @ + 1]
    [] b = <<5>> -> [r EXCEPT !.status_5xx_count = @ + 1]
    [] OTHER -> [r EXCEPT !.unreachable_count = @ + 1]

\* One iteration of the loop of parseFollowedLinks.
parseFollowedLinksBody(r, link) ==
  countStatus(countPassed(countLink(routeLink(r, link), link), link), link)

(***************************************************************************)
(* shouldGoToBlankPage                                                     *)
(***************************************************************************)
\* A URL is a sequence of characters: a non-empty base of at most MaxBaseLen
\* characters, then nothing or '#' and a fragment of at most MaxFragmentLen.
MaxBaseLen == 2
MaxFragmentLen == 1

UrlChars == {"a", "b"}
BaseUrls == UNION {[1..n -> UrlChars] : n \in 1..MaxBaseLen}
Fragments ==
  {<<>>} \cup {<<"#">> \o f : f \in UNION {[1..n -> UrlChars] : n \in 0..MaxFragmentLen}}
Urls == {b \o f : b \in BaseUrls, f \in Fragments}

\* String.prototype.includes: sub occurs in s at some position.
includes(s, sub) ==
  \E i \in 0..(Len(s) - Len(sub)) : SubSeq(s, i + 1, i + Len(sub)) = sub

\* String.prototype.indexOf for one character: its first 0-based position,
\* or -1.
indexOf(s, ch) ==
  IF \E i \in 1..Len(s) : s[i] = ch
  THEN (CHOOSE i \in 1..Len(s) : s[i] = ch /\ \A j \in 1..(i - 1) : s[j] # ch) - 1
  ELSE 0 - 1

\* String.prototype.substring: both indices clamped to [0, length], swapped
\* when start > end.
substring(s, start, end) ==
  LET a == Min(Max(start, 0), Len(s))
      b == Min(Max(end, 0), Len(s))
  IN SubSeq(s, Min(a, b) + 1, Max(a, b))

shouldGoToBlankPage(cur, tgt) ==
  /\ includes(tgt, <<"#">>)
  /\ includes(cur, substring(tgt, 0, indexOf(tgt, "#")))

(***************************************************************************)
(* closePagePool                                                           *)
(***************************************************************************)
\* The largest page pool tried.
MaxPages == 3

\* What a rejected promise is rejected with: an Error, or another value.
Thrown == {"Error", "other"}
Rejected(err) == IF err = "Error" THEN "rejectedError" ELSE "rejectedOther"
RejectedStates == {Rejected(err) : err \in Thrown}

\* Promise.all over the callbacks' promises: rejected with the first
\* rejection, fulfilled once every promise is, pending otherwise. first is
\* the rejection that comes first among those already there.
PromiseAll(closes, first) ==
  IF first \in RejectedStates THEN first
  ELSE IF \A p \in DOMAIN closes : closes[p] = "closed" THEN "fulfilled"
  ELSE "pending"

\* The catch block of closePagePool throwing the error on.
closePagePoolRethrow(all) ==
  [promise |-> "rejected",
   stderr |-> IF all = "rejectedError" THEN 1 ELSE 0]

\* closePagePool after its await: past the try block when Promise.all
\* fulfilled, through the catch block when it rejected.
closePagePoolResume(all) ==
  [promise |-> "resolved",
   stderr |-> IF all = "rejectedError" THEN 1 ELSE 0]

(***************************************************************************)
(* openNewPage                                                             *)
(***************************************************************************)
\* The number of concurrent calls of openNewPage tried.
MaxOpenCalls == 3

OpenCalls == 1..MaxOpenCalls

(***************************************************************************)
(* Initial and idle states                                                 *)
(***************************************************************************)
StatusInit ==
  /\ expected \in Expectations
  /\ actual \in ActualValues
  /\ status_ret = <<>>

StatusIdle ==
  /\ expected = [status_value |-> Undefined, status_class |-> "undefined"]
  /\ actual = 0
  /\ status_ret = <<>>

SelectInit ==
  /\ links \in LinkArrays
  /\ link_limit \in LimitValues
  /\ link_order \in LinkOrders
  /\ select_ret = <<>>

SelectIdle ==
  /\ links = <<>>
  /\ link_limit = 0
  /\ link_order = "SEQUENTIAL"
  /\ select_ret = <<>>

AggregateInit ==
  /\ followed_links = <<>>
  /\ broken_links_result = EmptyResult
  /\ synthetic_ret = <<>>

AggregateIdle == AggregateInit

BlankInit ==
  /\ current_url \in Urls
  /\ target_url \in Urls
  /\ blank_ret = <<>>

BlankIdle ==
  /\ current_url = <<"a">>
  /\ target_url = <<"a">>
  /\ blank_ret = <<>>

PoolInit ==
  /\ pagePool \in 0..MaxPages
  /\ page_close = [p \in 1..pagePool |-> "open"]
  /\ pool_pc = "start"
  /\ map_i = 0
  /\ all_promise = "none"
  /\ pool_promise = "none"
  /\ pool_stderr = 0

PoolIdle ==
  /\ pagePool = 0
  /\ page_close = <<>>
  /\ pool_pc = "start"
  /\ map_i = 0
  /\ all_promise = "none"
  /\ pool_promise = "none"
  /\ pool_stderr = 0

OpenInit ==
  /\ open_pc = [c \in OpenCalls |-> "start"]
  /\ new_page = [c \in OpenCalls |-> "none"]
  /\ cache = [c \in OpenCalls |-> "enabled"]
  /\ open_promise = [c \in OpenCalls |-> "none"]
  /\ open_stderr = [c \in OpenCalls |-> 0]

OpenIdle == OpenInit

(***************************************************************************)
(* Actions and specifications                                              *)
(***************************************************************************)
CallCheckStatusPassing ==
  /\ status_ret = <<>>
  /\ status_ret' = <<checkStatusPassing(expected, actual)>>
  /\ UNCHANGED <<expected, actual>>
  /\ UNCHANGED <<SelectVars, AggregateVars, BlankVars, PoolVars, OpenVars>>

StatusNext == CallCheckStatusPassing

\* checkStatusPassing starts from its inputs; the other helpers are idle.
InitStatus ==
  /\ StatusInit
  /\ SelectIdle
  /\ AggregateIdle
  /\ BlankIdle
  /\ PoolIdle
  /\ OpenIdle

SpecStatus == InitStatus /\ [][StatusNext]_vars

CallShuffleAndTruncate ==
  /\ select_ret = <<>>
  /\ \E r \in shuffleAndTruncate(links, link_limit, link_order) :
       select_ret' = <<r>>
  /\ UNCHANGED <<links, link_limit, link_order>>
  /\ UNCHANGED <<StatusVars, AggregateVars, BlankVars, PoolVars, OpenVars>>

SelectNext == CallShuffleAndTruncate

\* shuffleAndTruncate starts from its inputs; the other helpers are idle.
InitSelect ==
  /\ SelectInit
  /\ StatusIdle
  /\ AggregateIdle
  /\ BlankIdle
  /\ PoolIdle
  /\ OpenIdle

SpecSelect == InitSelect /\ [][SelectNext]_vars

\* The loop is handed the next element of the argument, whatever it is.
ParseFollowedLink ==
  /\ synthetic_ret = <<>>
  /\ Len(followed_links) < MaxResults
  /\ \E link \in LinkResults :
       /\ followed_links' = Append(followed_links, link)
       /\ broken_links_result' = parseFollowedLinksBody(broken_links_result, link)
  /\ UNCHANGED synthetic_ret
  /\ UNCHANGED <<StatusVars, SelectVars, BlankVars, PoolVars, OpenVars>>

\* The argument has no further element: parseFollowedLinks returns and
\* createSyntheticResult sets the options and wraps the report.
CreateSyntheticResult ==
  /\ synthetic_ret = <<>>
  /\ \E now \in ClockValues :
       synthetic_ret' =
         <<[synthetic_broken_links_result_v1 |->
              [broken_links_result EXCEPT !.options = "options"],
            runtime_metadata |-> "runtime_metadata",
            start_time |-> "t0",
            end_time |-> now]>>
  /\ UNCHANGED <<followed_links, broken_links_result>>
  /\ UNCHANGED <<StatusVars, SelectVars, BlankVars, PoolVars, OpenVars>>

AggregateNext == ParseFollowedLink \/ CreateSyntheticResult

\* createSyntheticResult starts from its inputs; the other helpers are idle.
InitAggregate ==
  /\ AggregateInit
  /\ StatusIdle
  /\ SelectIdle
  /\ BlankIdle
  /\ PoolIdle
  /\ OpenIdle

SpecAggregate == InitAggregate /\ [][AggregateNext]_vars

CallShouldGoToBlankPage ==
  /\ blank_ret = <<>>
  /\ blank_ret' = <<shouldGoToBlankPage(current_url, target_url)>>
  /\ UNCHANGED <<current_url, target_url>>
  /\ UNCHANGED <<StatusVars, SelectVars, AggregateVars, PoolVars, OpenVars>>

BlankNext == CallShouldGoToBlankPage

\* shouldGoToBlankPage starts from its inputs; the other helpers are idle.
InitBlank ==
  /\ BlankInit
  /\ StatusIdle
  /\ SelectIdle
  /\ AggregateIdle
  /\ PoolIdle
  /\ OpenIdle

SpecBlank == InitBlank /\ [][BlankNext]_vars

\* closePagePool is called: it enters the try block and pagePool.map starts.
CallClosePagePool ==
  /\ pool_pc = "start"
  /\ pool_pc' = "map"
  /\ pool_promise' = "pending"
  /\ UNCHANGED <<pagePool, page_close, map_i, all_promise, pool_stderr>>
  /\ UNCHANGED <<StatusVars, SelectVars, AggregateVars, BlankVars, OpenVars>>

\* map calls the async callback on the next page: page.close() returns a
\* pending promise, or throws, which rejects the callback's promise at once.
MapPage ==
  /\ pool_pc = "map"
  /\ map_i < pagePool
  /\ \E outcome \in {"closing"} \cup RejectedStates :
       page_close' = [page_close EXCEPT ![map_i + 1] = outcome]
  /\ map_i' = map_i + 1
  /\ UNCHANGED <<pagePool, pool_pc, all_promise, pool_promise, pool_stderr>>
  /\ UNCHANGED <<StatusVars, SelectVars, AggregateVars, BlankVars, OpenVars>>

\* map has visited every page: Promise.all is built over the callbacks'
\* promises and closePagePool awaits it. Of the promises rejected during the
\* map, the one of the lowest index rejects it.
AwaitAll ==
  /\ pool_pc = "map"
  /\ map_i = pagePool
  /\ pool_pc' = "await"
  /\ LET failed == {p \in 1..pagePool : page_close[p] \in RejectedStates}
         first ==
           IF failed = {} THEN "none"
           ELSE page_close[CHOOSE p \in failed : \A q \in failed : p <= q]
     IN all_promise' = PromiseAll(page_close, first)
  /\ UNCHANGED <<pagePool, page_close, map_i, pool_promise, pool_stderr>>
  /\ UNCHANGED <<StatusVars, SelectVars, AggregateVars, BlankVars, OpenVars>>

\* A pending page.close() settles, fulfilled or rejected; Promise.all settles
\* with it when it is still pending.
CloseSettles(p) ==
  /\ pool_pc \in {"await", "done"}
  /\ page_close[p] = "closing"
  /\ \E outcome \in {"closed"} \cup RejectedStates :
       /\ page_close' = [page_close EXCEPT ![p] = outcome]
       /\ all_promise' =
            IF all_promise = "pending"
            THEN PromiseAll(page_close', outcome)
            ELSE all_promise
  /\ UNCHANGED <<pagePool, pool_pc, map_i, pool_promise, pool_stderr>>
  /\ UNCHANGED <<StatusVars, SelectVars, AggregateVars, BlankVars, OpenVars>>

\* Promise.all has settled: closePagePool resumes after its await.
ResumeClosePagePool ==
  /\ pool_pc = "await"
  /\ all_promise # "pending"
  /\ pool_pc' = "done"
  /\ pool_promise' = closePagePoolResume(all_promise).promise
  /\ pool_stderr' = pool_stderr + closePagePoolResume(all_promise).stderr
  /\ UNCHANGED <<pagePool, page_close, map_i, all_promise>>
  /\ UNCHANGED <<StatusVars, SelectVars, AggregateVars, BlankVars, OpenVars>>

PoolNext ==
  \/ CallClosePagePool
  \/ MapPage
  \/ AwaitAll
  \/ \E p \in 1..pagePool : CloseSettles(p)
  \/ ResumeClosePagePool

\* closePagePool starts from its inputs; the other helpers are idle.
InitPool ==
  /\ PoolInit
  /\ StatusIdle
  /\ SelectIdle
  /\ AggregateIdle
  /\ BlankIdle
  /\ OpenIdle

SpecPool == InitPool /\ [][PoolNext]_vars

\* openNewPage is called: it enters the try block, calls browser.newPage()
\* and awaits the promise.
CallOpenNewPage(c) ==
  /\ open_pc[c] = "start"
  /\ open_pc' = [open_pc EXCEPT ![c] = "await"]
  /\ new_page' = [new_page EXCEPT ![c] = "pending"]
  /\ open_promise' = [open_promise EXCEPT ![c] = "pending"]
  /\ UNCHANGED <<cache, open_stderr>>
  /\ UNCHANGED <<StatusVars, SelectVars, AggregateVars, BlankVars, PoolVars>>

\* browser.newPage() settles, fulfilled with a page or rejected.
NewPageSettles(c) ==
  /\ new_page[c] = "pending"
  /\ \E outcome \in {"fulfilled"} \cup RejectedStates :
       new_page' = [new_page EXCEPT ![c] = outcome]
  /\ UNCHANGED <<open_pc, cache, open_promise, open_stderr>>
  /\ UNCHANGED <<StatusVars, SelectVars, AggregateVars, BlankVars, PoolVars>>

\* openNewPage resumes after its await. With a page: page.setCacheEnabled(false)
\* is called, its promise is dropped, and the page is returned. With a
\* rejection: the catch block writes an Error's message and throws the
\* wrapped error.
ResumeOpenNewPage(c) ==
  /\ open_pc[c] = "await"
  /\ new_page[c] # "pending"
  /\ open_pc' = [open_pc EXCEPT ![c] = "done"]
  /\ IF new_page[c] = "fulfilled"
     THEN /\ cache' = [cache EXCEPT ![c] = "disabling"]
          /\ open_promise' = [open_promise EXCEPT ![c] = "resolved"]
          /\ UNCHANGED open_stderr
     ELSE /\ open_stderr' =
               [open_stderr EXCEPT
                  ![c] = @ + (IF new_page[c] = "rejectedError" THEN 1 ELSE 0)]
          /\ open_promise' = [open_promise EXCEPT ![c] = "rejected"]
          /\ UNCHANGED cache
  /\ UNCHANGED new_page
  /\ UNCHANGED <<StatusVars, SelectVars, AggregateVars, BlankVars, PoolVars>>

\* The promise of page.setCacheEnabled(false) settles: the cache is disabled,
\* or the call failed and nothing handles the rejection.
CacheSettles(c) ==
  /\ cache[c] = "disabling"
  /\ \E outcome \in {"disabled", "failed"} :
       cache' = [cache EXCEPT ![c] = outcome]
  /\ UNCHANGED <<open_pc, new_page, open_promise, open_stderr>>
  /\ UNCHANGED <<StatusVars, SelectVars, AggregateVars, BlankVars, PoolVars>>

OpenNext ==
  \E c \in OpenCalls :
    \/ CallOpenNewPage(c)
    \/ NewPageSettles(c)
    \/ ResumeOpenNewPage(c)
    \/ CacheSettles(c)

\* openNewPage starts from its inputs; the other helpers are idle.
InitOpen ==
  /\ OpenInit
  /\ StatusIdle
  /\ SelectIdle
  /\ AggregateIdle
  /\ BlankIdle
  /\ PoolIdle

SpecOpen == InitOpen /\ [][OpenNext]_vars

(***************************************************************************)
(* Properties                                                              *)
(***************************************************************************)
\* The digit c of a named status class cXX.
ClassDigit(class) ==
  CASE class = "STATUS_CLASS_1XX" -> 1
    [] class = "STATUS_CLASS_2XX" -> 2
    [] class = "STATUS_CLASS_3XX" -> 3
    [] class = "STATUS_CLASS_4XX" -> 4
    [] class = "STATUS_CLASS_5XX" -> 5

\* C1: checkStatusPassing returns true exactly when the expectation carries a
\* numeric status_value equal to the actual code (whatever the class), or it
\* carries no numeric value, its class is one of 1XX..5XX with digit c and
\* 100*c <= actual <= 100*c + 99; an unset or unrecognized expectation fails
\* for every actual.
C1_StatusPassing ==
  status_ret # <<>> =>
    status_ret[1] =
      \/ /\ TypeOf(expected.status_value) = "number"
         /\ expected.status_value.value = actual
      \/ /\ TypeOf(expected.status_value) # "number"
         /\ expected.status_class \in NamedClasses
         /\ 100 * ClassDigit(expected.status_class) <= actual
         /\ actual <= 100 * ClassDigit(expected.status_class) + 99

\* A class expectation met at the upper edge of its band, with no exact value.
C1_Witness ==
  /\ status_ret = <<TRUE>>
  /\ TypeOf(expected.status_value) # "number"
  /\ expected.status_class = "STATUS_CLASS_2XX"
  /\ actual = 299

C3_NonPositiveLimitEmpty ==
  (select_ret # <<>> /\ link_limit <= 0) => select_ret[1] = <<>>

Report == synthetic_ret[1].synthetic_broken_links_result_v1

IsOrigin(link) == link.is_origin
IsFollowed(link) == ~link.is_origin
Passed(link) == link.link_passed
NumOrigins == Len(SelectSeq(followed_links, IsOrigin))

\* C4: the report has link_count = passing_link_count + failing_link_count,
\* link_count the number of input results and passing_link_count the number
\* of them with link_passed true.
C4_PassFailPartition ==
  synthetic_ret # <<>> =>
    /\ Report.link_count = Report.passing_link_count + Report.failing_link_count
    /\ Report.link_count = Len(followed_links)
    /\ Report.passing_link_count = Len(SelectSeq(followed_links, Passed))

\* A report over an input with a passing and a failing result, one of them
\* without a status code.
C4_Witness ==
  /\ synthetic_ret # <<>>
  /\ Report.passing_link_count >= 1
  /\ Report.failing_link_count >= 1
  /\ \E i \in 1..Len(followed_links) :
       /\ ~followed_links[i].link_passed
       /\ followed_links[i].status_code = Undefined

\* C5 as stated: link_count is 1 + len(followed_link_results) when the input
\* holds an origin result (one or several), len(followed_link_results) when
\* it holds none.
C5_OriginCountsOnce ==
  synthetic_ret # <<>> =>
    Report.link_count =
      (IF NumOrigins >= 1 THEN 1 ELSE 0)
        + Len(Report.followed_link_results)

\* C5 amended: link_count is the number of origin results of the input plus
\* len(followed_link_results); so 1 + len(followed_link_results) with exactly
\* one origin result and len(followed_link_results) with none.
C5_OriginsPlusFollowed ==
  synthetic_ret # <<>> =>
    Report.link_count =
      NumOrigins + Len(Report.followed_link_results)

\* A report over one origin result and two followed ones.
C5_Witness ==
  /\ synthetic_ret # <<>>
  /\ NumOrigins = 1
  /\ Len(Report.followed_link_results) = 2
  /\ Report.link_count = 3

\* C7: followed_link_results is the subsequence of the input results whose
\* is_origin is not true, in input order.
C7_FollowedSubsequence ==
  synthetic_ret # <<>> =>
    Report.followed_link_results = SelectSeq(followed_links, IsFollowed)

\* A report whose input has an origin result between two different followed
\* results.
C7_Witness ==
  /\ synthetic_ret # <<>>
  /\ Len(followed_links) = 3
  /\ ~followed_links[1].is_origin
  /\ followed_links[2].is_origin
  /\ ~followed_links[3].is_origin
  /\ followed_links[1] # followed_links[3]
  /\ Report.followed_link_results = <<followed_links[1], followed_links[3]>>

Counters ==
  {"unreachable_count", "status_2xx_count", "status_3xx_count",
   "status_4xx_count", "status_5xx_count"}

SumCounters(r) ==
  r.unreachable_count + r.status_2xx_count + r.status_3xx_count
    + r.status_4xx_count + r.status_5xx_count

InBand(code, lo) ==
  TypeOf(code) = "number" /\ lo <= code.value /\ code.value <= lo + 99

\* C6: each link result increments exactly one of the four class counters and
\* unreachable_count, so their sum is link_count; a code in 200-299, 300-399,
\* 400-499 or 500-599 increments the matching class counter, an absent code
\* or one outside 100-599 increments unreachable_count.
C6_OneCounterPerLink ==
  /\ [](/\ SumCounters(broken_links_result) = broken_links_result.link_count
        /\ synthetic_ret # <<>> =>
             /\ \A c \in Counters : Report[c] = broken_links_result[c]
             /\ Report.link_count = broken_links_result.link_count)
  /\ [][Len(followed_links') = Len(followed_links) + 1 =>
          LET code == followed_links'[Len(followed_links')].status_code IN
          \E c \in Counters :
            /\ broken_links_result'[c] = broken_links_result[c] + 1
            /\ \A d \in Counters \ {c} :
                 broken_links_result'[d] = broken_links_result[d]
            /\ InBand(code, 200) => c = "status_2xx_count"
            /\ InBand(code, 300) => c = "status_3xx_count"
            /\ InBand(code, 400) => c = "status_4xx_count"
            /\ InBand(code, 500) => c = "status_5xx_count"
            /\ (TypeOf(code) # "number" \/ code.value < 100 \/ code.value > 599)
                 => c = "unreachable_count"]_vars

\* A report over a result without a status code, one with a code above 599
\* and one at the upper edge of the 3xx band.
C6_Witness ==
  /\ synthetic_ret # <<>>
  /\ Report.unreachable_count = 2
  /\ Report.status_3xx_count = 1
  /\ \E i, j, k \in 1..Len(followed_links) :
       /\ followed_links[i].status_code = Undefined
       /\ followed_links[j].status_code = Num(600)
       /\ followed_links[k].status_code = Num(399)

\* The part of a URL before its first '#', the whole URL when it has none.
BaseUrl(u) == IF includes(u, <<"#">>) THEN substring(u, 0, indexOf(u, "#")) ELSE u

\* C8: shouldGoToBlankPage returns true exactly when the two URLs differ only
\* by a fragment identifier on the same base URL.
C8_OnlyFragmentDiffers ==
  blank_ret # <<>> =>
    blank_ret[1] =
      (BaseUrl(current_url) = BaseUrl(target_url) /\ current_url # target_url)

\* C9: closePagePool starts a close on every page of the pool, also when an
\* earlier page's close fails, and the promise it returns never rejects and,
\* once every close has settled and nothing is left to run, has resolved.
C9_PoolTeardownSwallows ==
  /\ pool_promise # "rejected"
  /\ pool_pc \in {"await", "done"} =>
       \A p \in 1..pagePool : page_close[p] # "open"
  /\ ~ENABLED PoolNext => pool_promise = "resolved"

\* The first page's close failed with an Error, a later page's close still
\* ran to its end, and the returned promise resolved after one message.
C9_Witness ==
  /\ pool_promise = "resolved"
  /\ pagePool >= 2
  /\ page_close[1] = "rejectedError"
  /\ page_close[pagePool] = "closed"
  /\ pool_stderr = 1

\* C10: whenever openNewPage has resolved with a page, disabling the cache on
\* that page has completed successfully.
C10_CacheDisabledOnReturn ==
  \A c \in OpenCalls : open_promise[c] = "resolved" => cache[c] = "disabled"
====
